---- MODULE Spec2Model ----
(***************************************************************************)
(* Background task lifecycle of ggrc (ggrc/models/background_task.py):     *)
(* create_task (Task Submitter), bg_operation_running (Operation Guard),   *)
(* _enqueue_task (Queue Adapter) and queued_task (Task Runner), run by     *)
(* concurrent requests that share one relational store.  Every request     *)
(* owns a SQLAlchemy session: objects added to it are invisible to other   *)
(* requests until a commit.                                                *)
(***************************************************************************)
EXTENDS Integers, Sequences, FiniteSets, TLC

\* Bounds of the model.
NProcs == 2
MaxTasks == 2
\* Dispatches of create_lightweight_task the transport holds at a time.
MaxLightweight == 1
\* Notifications a request sends.
MaxMails == 2
\* Rows of custom_attribute_definitions and of custom_attribute_values, and
\* the entries of one list of definitions or values.
MaxCads == 4
MaxCavs == 3
MaxEntries == 2

Procs == 1..NProcs
\* uuid4 tokens, one per BackgroundTask object ever constructed.
Keys == 1..MaxTasks

VALID_STATES == <<"Pending", "Running", "Success", "Failure">>

BANNED_HEADERS ==
  {"X-Appengine-Country", "X-Appengine-Queuename",
   "X-Appengine-Current-Namespace", "X-Appengine-Taskname",
   "X-Appengine-Tasketa", "X-Appengine-Taskexecutioncount",
   "X-Appengine-Taskretrycount", "X-Task-Name"}

\* Rows of the BackgroundOperationType table.
OperationTypeTable == {"Scan"}
\* operation_type arguments: "" stands for None (falsy).
OperationTypes == {"", "Scan", "Bogus"}
\* parameters["parent"]: type "" and id 0 stand for a missing (falsy) entry.
ParentChoices ==
  {[type |-> "", id |-> 0], [type |-> "Audit", id |-> 0],
   [type |-> "Audit", id |-> 7], [type |-> "Audit", id |-> 8]}
BaseName == "scan"
\* url arguments: the view of a queued_task runner, and a view of another kind.
RunnerUrl == "/_background_tasks/scan"
LightweightUrl == "/_background_tasks/update"

\* request.headers of a request that calls create_task: those of a browser,
\* or those of a task queue delivery (the caller is itself an earlier
\* background task, "0_scan").
RequestHeaders ==
  {<< <<"Accept", "text/html">> >>,
   << <<"X-Task-Name", "0_scan">>, <<"X-Appengine-Taskname", "t1">>,
      <<"X-Appengine-Taskretrycount", "0">>, <<"Accept", "text/html">> >>}

NoOp == [operation_type |-> "", object_type |-> "", object_id |-> 0]
\* result column holding None
NoResult == [content |-> "", status_code |-> 0, headers |-> <<>>]
\* a name that is None: no X-Task-Name header, no such column value
NoName == ""
TextHtml == << <<"Content-Type", "text/html">> >>
Traceback == "Traceback (most recent call last)"

\* Python values: None, a str, a dict (its items).
PyNone == [type |-> "NoneType", text |-> "", items |-> {}]
PyStr(text) == [type |-> "str", text |-> text, items |-> {}]
PyDict(items) == [type |-> "dict", text |-> "", items |-> items]

\* The values work functions serialise into their results.
JsonValues == {PyDict({<<"n", 1>>})}

\* json.dumps(value)
json_dumps(value) ==
  IF value = PyDict({}) THEN "{}"
  ELSE IF value = PyDict({<<"n", 1>>}) THEN "{\"n\": 1}"
  ELSE IF value = PyNone THEN "null"
  ELSE "\"" \o value.text \o "\""

\* json.loads(text): the value decoded, or the ValueError raised for a text
\* that is no JSON document.
json_loads(text) ==
  IF text = "{}" THEN [exc |-> "", value |-> PyDict({})]
  ELSE IF text = "{\"n\": 1}" THEN [exc |-> "", value |-> PyDict({<<"n", 1>>})]
  ELSE IF text = "null" THEN [exc |-> "", value |-> PyNone]
  ELSE [exc |-> "ValueError", value |-> PyNone]

ApplicationJson == << <<"Content-Type", "application/json">> >>

\* What a work function may return: a plain value or a flask Response, of a
\* text that is no JSON document or of a serialised value.
WorkResults ==
  {[isResponse |-> FALSE, content |-> "ok", status_code |-> 0, headers |-> <<>>],
   [isResponse |-> TRUE, content |-> "error", status_code |-> 500, headers |-> TextHtml]}
  \cup {[isResponse |-> FALSE, content |-> json_dumps(v), status_code |-> 0,
          headers |-> <<>>] : v \in JsonValues}
  \cup {[isResponse |-> TRUE, content |-> json_dumps(v), status_code |-> 200,
          headers |-> ApplicationJson] : v \in JsonValues}

\* app.make_response((content, status, headers))
make_response(content, status_code, headers) ==
  [isResponse |-> TRUE, content |-> content, status_code |-> status_code,
   headers |-> headers]

NoTask ==
  [st |-> "none", owner |-> 0, id |-> 0, name |-> NoName, status |-> "",
   result |-> NoResult, op |-> NoOp]
NoRet == [kind |-> "none", what |-> "", code |-> 0, body |-> "", content |-> PyNone]
NoLocals == [bg_operation |-> NoOp]
NoTx == [by |-> "none", tasks |-> {}, work |-> FALSE, discarded |-> FALSE]

\* What a step gives its caller.  kind, what: create_task raised exception
\* `what` or returned bg_task.  code, body: the HTTP response decorated_view
\* returned (code 0: it returned none in this step).  content: what
\* get_content returned (kind "content").
Raised(e) == [NoRet EXCEPT !.kind = "raised", !.what = e]
Returned == [NoRet EXCEPT !.kind = "returned", !.what = "bg_task"]
Responded(content, code) == [NoRet EXCEPT !.code = code, !.body = content]

\* The deployments: CLOUD_APPSERVER is only read under APP_ENGINE.
Settings ==
  {s \in [APP_ENGINE : BOOLEAN, CLOUD_APPSERVER : BOOLEAN] :
     s.CLOUD_APPSERVER => s.APP_ENGINE}

VARIABLES
  settings,  \* APP_ENGINE, CLOUD_APPSERVER
  tasks,     \* BackgroundTask objects by uuid token, with their BackgroundOperation
  queue,     \* dispatches held by the task queue transport
  pc,        \* position of each request
  cur,       \* the task a runner works on
  locals,    \* create_task's bg_operation between its steps
  sessWork,  \* the session holds uncommitted writes of the work function
  tx,        \* write set of the transaction the last step committed
  ret,       \* what the last step raised, returned or responded
  url_root,  \* utils.get_url_root() of the request that sends notifications
  payload,   \* the payload dict of the caller of send_email
  outbox,    \* the calls of common.send_email made so far
  cads,      \* the custom attribute definitions, by id
  cavs       \* the custom attribute values, by id

\* The state of the background tasks, and that of the job notifications.
task_vars == <<settings, tasks, queue, pc, cur, locals, sessWork, tx, ret>>
email_vars == <<url_root, payload, outbox>>
ca_vars == <<cads, cavs>>

vars == <<task_vars, email_vars, ca_vars>>

----------------------------------------------------------------------------
(* Job notifications: ggrc/notifications/job_emails.py *)

\* A URL as urlparse splits it: scheme and netloc ("" when absent), the path
\* as path.split("/") gives it (<<>> for an empty path) and the fragment.
Url(scheme, netloc, path, fragment) ==
  [scheme |-> scheme, netloc |-> netloc, path |-> path, fragment |-> fragment]
NoUrl == Url("", "", <<>>, "")

\* "/".join(segments)
RECURSIVE join_path(_)
join_path(segments) ==
  IF segments = <<>> THEN ""
  ELSE IF Len(segments) = 1 THEN segments[1]
  ELSE segments[1] \o "/" \o join_path(Tail(segments))

\* urlunparse: the text of a URL.
urlunparse(u) ==
  LET path == join_path(u.path)
      rooted == IF u.netloc # "" /\ u.path # <<>> /\ u.path[1] # ""
                THEN "/" \o path ELSE path
      located == IF u.netloc # "" THEN "//" \o u.netloc \o rooted ELSE rooted
      schemed == IF u.scheme # "" THEN u.scheme \o ":" \o located ELSE located
  IN IF u.fragment # "" THEN schemed \o "#" \o u.fragment ELSE schemed

\* urljoin as it would be if it always took url as a path under base.
urljoin_always_relative(base, url) ==
  Url(base.scheme, base.netloc,
      SubSeq(base.path, 1, Len(base.path) - 1)
        \o <<url.scheme \o url.netloc>> \o url.path,
      url.fragment)

\* urlparse.urljoin(base, url) for URLs without params, query or dot segments.
urljoin(base, url) ==
  IF base = NoUrl THEN url
  ELSE IF url = NoUrl THEN base
  ELSE LET scheme == IF url.scheme = "" THEN base.scheme ELSE url.scheme IN
       IF scheme # base.scheme THEN url
       ELSE IF url.netloc # "" THEN Url(scheme, url.netloc, url.path, url.fragment)
       ELSE IF url.path # <<>> /\ url.path[1] = "" /\ Len(url.path) > 1
       THEN Url(scheme, base.netloc, url.path, url.fragment)
       ELSE IF url.path = <<>>
       THEN Url(scheme, base.netloc, base.path, url.fragment)
       ELSE Url(scheme, base.netloc,
                SubSeq(base.path, 1, Len(base.path) - 1) \o url.path,
                url.fragment)

\* The roots requests are served under: "http://test/" and "http://test/ggrc/".
UrlRoots ==
  {Url("http", "test", <<"", "">>, ""), Url("http", "test", <<"", "ggrc", "">>, "")}

\* A title with its {filename} placeholder: the text before and after it.
Title(before, has_filename, after) ==
  [before |-> before, has_filename |-> has_filename, after |-> after]

\* template["title"].format(filename=filename)
format_title(title, filename) ==
  IF title.has_filename THEN title.before \o filename \o title.after
  ELSE title.before \o title.after

IMPORT_COMPLETED ==
  [title |-> Title("", TRUE, " was imported successfully"),
   body |-> "Go to import page to check details or submit new import request.",
   url |-> Url("", "", <<"import">>, "")]

EXPORT_COMPLETED ==
  [title |-> Title("", TRUE, " was exported successfully"),
   body |-> "Go to export page to download the result. If the file generated for this export request has been downloaded, you can ignore the email.",
   url |-> Url("", "", <<"export">>, "")]

\* The templates send_email is called with: two of the module's, and one
\* whose url is a full URL.
Templates ==
  {IMPORT_COMPLETED, EXPORT_COMPLETED,
   [title |-> Title("title", FALSE, ""), body |-> "body",
    url |-> Url("http", "test", <<"", "import">>, "")]}

\* ie_id: None (NoId) or the id of an import/export job.
NoId == 0 - 1
JobIds == {NoId, 0, 42}
Filenames == {"", "a.csv"}
Recipients == {"user@example.com"}

\* payload arguments: None, the empty dict, short urls of saved searches,
\* and full urls.
NoPayload == [none |-> TRUE, items |-> <<>>]
Dict(items) == [none |-> FALSE, items |-> items]
Descriptions == {"3 Assessment", "4 Audit"}
ShortSearches ==
  [d \in Descriptions |->
     IF d = "3 Assessment"
     THEN Url("", "", <<"objectBrowser">>, "!assessment&saved_search=5")
     ELSE Url("", "", <<"objectBrowser">>, "!audit&saved_search=4")]
FullSearches ==
  [d \in Descriptions |->
     IF d = "3 Assessment"
     THEN Url("http", "test", <<"", "objectBrowser">>, "!assessment&saved_search=5")
     ELSE Url("http", "test", <<"", "objectBrowser">>, "!audit&saved_search=4")]
Payloads == {NoPayload, Dict(<<>>), Dict(ShortSearches), Dict(FullSearches)}

\* _prepare_url_import_obj: every value of the dict joined to the url root,
\* in the dict itself.
prepare_url_import_obj(root, p) ==
  Dict([d \in DOMAIN p.items |-> urljoin(root, p.items[d])])

\* The url of the notification as it would be built with "if ie_id:".
notification_url_if_truthy(root, template, ie_id) ==
  LET url == urlunparse(urljoin(root, template.url)) IN
  IF ie_id # NoId /\ ie_id # 0
  THEN url \o "#!&job_id=" \o ToString(ie_id) ELSE url

\* send_email, lines 88-90: the url of the notification.
notification_url(root, template, ie_id) ==
  LET url == urlunparse(urljoin(root, template.url)) IN
  IF ie_id # NoId THEN url \o "#!&job_id=" \o ToString(ie_id) ELSE url

\* settings.EMAIL_IMPORT_EXPORT.render(import_export=data)
render(data) == [template |-> "EMAIL_IMPORT_EXPORT", import_export |-> data]

\* send_email: the payload dict after the call and the arguments of the call
\* of common.send_email.
send_email(root, template, send_to, filename, ie_id, p) ==
  LET subject == format_title(template.title, filename)
      prepared == IF ~p.none /\ DOMAIN p.items # {}
                  THEN prepare_url_import_obj(root, p) ELSE p
      data == [body |-> template.body, payload |-> prepared,
               url |-> notification_url(root, template, ie_id),
               title |-> subject]
  IN [payload |-> prepared,
      call |-> [send_to |-> send_to, subject |-> subject, body |-> render(data)]]

\* A request under url root `root` begins with payload p in hand.
NewRequest(root, p) ==
  /\ url_root' = root
  /\ payload' = p
  /\ outbox' = <<>>
  /\ UNCHANGED <<task_vars, ca_vars>>

\* The request calls _prepare_url_import_obj(payload).
PrepareUrlImportObj ==
  /\ url_root # NoUrl
  /\ ~payload.none
  /\ payload' = prepare_url_import_obj(url_root, payload)
  /\ UNCHANGED <<url_root, outbox>>
  /\ UNCHANGED <<task_vars, ca_vars>>

\* The request calls send_email(template, send_to, filename, ie_id, payload).
SendEmail(template, send_to, filename, ie_id) ==
  /\ url_root # NoUrl
  /\ Len(outbox) < MaxMails
  /\ LET e == send_email(url_root, template, send_to, filename, ie_id, payload) IN
     /\ payload' = e.payload
     /\ outbox' = Append(outbox, e.call)
  /\ UNCHANGED url_root
  /\ UNCHANGED <<task_vars, ca_vars>>

----------------------------------------------------------------------------
(* Custom attributes: ggrc/models/mixins/customattributable.py *)

CadIds == 1 .. MaxCads
CavIds == 1 .. MaxCavs

\* The objects with custom attributes: assessment template 1, control 2, and
\* assessment template 3, which is not stored yet (its id is None).
Objects == 1 .. 3
table_singular(o) == IF o = 2 THEN "control" ELSE "assessment_template"
has_id(o) == o # 3

\* hasattr(self, "PER_OBJECT_CUSTOM_ATTRIBUTABLE")
PER_OBJECT_CUSTOM_ATTRIBUTABLE(o) == table_singular(o) = "assessment_template"

\* A row of custom_attribute_definitions; definition_id 0 is NULL, a global
\* definition.
NoCad == [definition_type |-> "", definition_id |-> 0, title |-> "", attribute_type |-> ""]
Cad(definition_type, definition_id, title, attribute_type) ==
  [definition_type |-> definition_type, definition_id |-> definition_id,
   title |-> title, attribute_type |-> attribute_type]

\* The definitions before the first request: a global one of assessment
\* templates, a Map:Person one of template 1, a global one of controls.
InitialCads ==
  [i \in CadIds |->
     CASE i = 1 -> Cad("assessment_template", 0, "a", "Text")
       [] i = 2 -> Cad("assessment_template", 1, "p", "Map:Person")
       [] i = 3 -> Cad("control", 0, "a", "Text")
       [] OTHER -> NoCad]

\* A row of custom_attribute_values.
NoCav ==
  [attributable |-> 0, custom_attribute_id |-> 0, attribute_value |-> "",
   attribute_object_id |-> NoId, attribute_object_id_nn |-> 0]

NoCavs == [j \in CavIds |-> NoCav]

\* The values stored before the first request for definitions: none, or the
\* values of template 1 for its Map:Person definition and the global one.
StoredCavs ==
  {NoCavs,
   [j \in CavIds |->
      CASE j = 1 -> [attributable |-> 1, custom_attribute_id |-> 2, attribute_value |-> "Person",
                     attribute_object_id |-> 1, attribute_object_id_nn |-> 1]
        [] j = 2 -> [attributable |-> 1, custom_attribute_id |-> 1, attribute_value |-> "x",
                     attribute_object_id |-> NoId, attribute_object_id_nn |-> 0]
        [] OTHER -> NoCav]}

\* x or 0, for an id x that may be None
or_0(x) == IF x = NoId THEN 0 ELSE x

\* self.custom_attribute_definitions: the definitions of the object's type
\* that are the object's own or global.
custom_attribute_definitions(c, o) ==
  IF ~has_id(o) THEN {}
  ELSE {i \in CadIds : /\ c[i] # NoCad
                       /\ c[i].definition_type = table_singular(o)
                       /\ (c[i].definition_id = o \/ c[i].definition_id = 0)}

\* The id the store gives the next definition, the next value.
FreshCad(c, used) == CHOOSE i \in CadIds \ used : c[i] = NoCad /\ \A h \in CadIds \ used : c[h] = NoCad => i <= h
FreshCav(v, used) == CHOOSE j \in CavIds \ used : v[j] = NoCav /\ \A h \in CavIds \ used : v[h] = NoCav => j <= h

\* insert_definition: a new definition of the object, from the dict; its id
\* is none of the ids in use when the request began.
insert_definition(c, used, o, definition) ==
  [c EXCEPT ![FreshCad(c, used)] =
     Cad(table_singular(o), o, definition.title, definition.attribute_type)]

\* update_definition: the attributes of the dict set on the definition.
update_definition(c, definition) ==
  [c EXCEPT ![definition.id].title = definition.title,
            ![definition.id].attribute_type = definition.attribute_type]

\* process_definitions, lines 557-562: the definitions of the list, in order.
RECURSIVE insert_and_update(_, _, _, _, _, _)
insert_and_update(c, used, o, definitions, cads_to_add, cads_to_update) ==
  IF definitions = <<>> THEN c
  ELSE LET definition == Head(definitions)
           added == IF definition.id \in cads_to_add
                    THEN insert_definition(c, used, o, definition) ELSE c
           updated == IF definition.id \in cads_to_update
                      THEN update_definition(added, definition) ELSE added
       IN insert_and_update(updated, used, o, Tail(definitions), cads_to_add, cads_to_update)

\* The ids of a list of definitions; NoId for an entry without one.
definition_ids(definitions) == {definitions[n].id : n \in DOMAIN definitions}

\* process_definitions: the definitions and the values it leaves.  The rows
\* of custom_attribute_values of a deleted definition go with it.
process_definitions(c, v, o, definitions) ==
  IF ~PER_OBJECT_CUSTOM_ATTRIBUTABLE(o) THEN [cads |-> c, cavs |-> v]
  ELSE LET current_cad_ids == IF has_id(o) THEN custom_attribute_definitions(c, o) ELSE {}
           cads_to_remove == current_cad_ids \ (definition_ids(definitions) \ {NoId, 0})
           cads_to_add == definition_ids(definitions) \ current_cad_ids
           cads_to_update == current_cad_ids \ cads_to_remove
           removed == [i \in CadIds |->
                         IF i \in custom_attribute_definitions(c, o) /\ i \in cads_to_remove
                         THEN NoCad ELSE c[i]]
           used == {i \in CadIds : c[i] # NoCad}
       IN [cads |-> insert_and_update(removed, used, o, definitions, cads_to_add, cads_to_update),
           cavs |-> [j \in CavIds |->
                       IF v[j] # NoCav /\ removed[v[j].custom_attribute_id] = NoCad
                       THEN NoCav ELSE v[j]]]

\* self.custom_attribute_values: the values of the object.
custom_attribute_values(v, o) == {j \in CavIds : v[j] # NoCav /\ v[j].attributable = o}

\* The key of a value: (custom_attribute_id, attribute_object_id_nn).
cav_key(value) == <<value.custom_attribute_id, value.attribute_object_id_nn>>

\* self._values_map, lines 67-73: the keys of the object's values that have
\* their definition, and the value stored under a key (0 when there is none).
values_map_keys(c, v, o) ==
  {cav_key(v[j]) : j \in {h \in custom_attribute_values(v, o) : c[v[h].custom_attribute_id] # NoCad}}
values_map_get(c, v, o, key) ==
  IF key \notin values_map_keys(c, v, o) THEN 0
  ELSE CHOOSE j \in custom_attribute_values(v, o) :
         /\ c[v[j].custom_attribute_id] # NoCad
         /\ cav_key(v[j]) = key
         /\ \A h \in custom_attribute_values(v, o) :
              (c[v[h].custom_attribute_id] # NoCad /\ cav_key(v[h]) = key) => h <= j

\* A dict of a request for values: a stub with "href", or a dict with
\* "custom_attribute_id", "attribute_value" and maybe "attribute_objects"
\* (the ids of the persons; <<>> when absent or None).
ValueDict(href, custom_attribute_id, attribute_value, attribute_objects) ==
  [href |-> href, custom_attribute_id |-> custom_attribute_id,
   attribute_value |-> attribute_value, attribute_object_id |-> NoId,
   attribute_object_id_nn |-> NoId, attribute_object |-> 0,
   attribute_objects |-> attribute_objects]
Stub == ValueDict(TRUE, NoId, "", <<>>)

\* _extend_values, lines 336-343: one dict for each attribute object.
RECURSIVE extend_attribute_objects(_, _)
extend_attribute_objects(value, attribute_objects) ==
  IF attribute_objects = <<>> THEN <<>>
  ELSE <<[value EXCEPT !.attribute_object = Head(attribute_objects),
                       !.attribute_object_id = Head(attribute_objects),
                       !.attribute_object_id_nn = or_0(Head(attribute_objects)),
                       !.attribute_objects = <<>>]>>
       \o extend_attribute_objects(value, Tail(attribute_objects))

\* _extend_values: the dicts of the request, those with attribute objects
\* spread, those of a Map:Person definition with stored values and no
\* attribute objects dropped.
RECURSIVE extend_values(_, _, _, _)
extend_values(c, definitions_map, keys, values) ==
  IF values = <<>> THEN <<>>
  ELSE LET value == Head(values)
           rest == extend_values(c, definitions_map, keys, Tail(values))
       IN IF value.href THEN <<value>> \o rest
          ELSE IF value.attribute_objects # <<>>
          THEN extend_attribute_objects(value, value.attribute_objects) \o rest
          ELSE IF /\ value.custom_attribute_id \in definitions_map
                  /\ c[value.custom_attribute_id].attribute_type = "Map:Person"
                  /\ \E key \in keys : key[1] = value.custom_attribute_id
          THEN rest
          ELSE <<[value EXCEPT !.attribute_object_id_nn = or_0(value.attribute_object_id)]>>
               \o rest

\* _complete_cav: the stored value takes the value of the dict.
complete_cav(v, j, o, value) ==
  [v EXCEPT ![j].attributable = o,
            ![j].attribute_value = value.attribute_value,
            ![j].attribute_object_id = value.attribute_object_id,
            ![j].attribute_object_id_nn = or_0(value.attribute_object_id)]

\* _create_cav: a new value of the object; its id is none of the ids in use
\* when the request began.
create_cav(v, used, o, value) ==
  [v EXCEPT ![FreshCav(v, used)] =
     [attributable |-> o, custom_attribute_id |-> value.custom_attribute_id,
      attribute_value |-> value.attribute_value,
      attribute_object_id |-> value.attribute_object_id,
      attribute_object_id_nn |-> IF value.attribute_object = 0
                                 THEN or_0(value.attribute_object_id)
                                 ELSE or_0(value.attribute_object)]]

\* _delete_cavs as it would be without the test for local definitions.
delete_cavs_any_definition(c, v0, v, o, values) ==
  LET keys_before_delete == values_map_keys(c, v0, o)
      keys_after_delete == {cav_key(values[n]) : n \in DOMAIN values}
      cavs_to_delete == keys_before_delete \ keys_after_delete
  IN [j \in CavIds |->
        IF \E key \in cavs_to_delete : values_map_get(c, v0, o, key) = j
        THEN NoCav ELSE v[j]]

\* _delete_cavs: the stored values of local definitions whose key is not in
\* the request are deleted.
delete_cavs(c, v0, v, o, values) ==
  LET keys_before_delete ==
        {key \in values_map_keys(c, v0, o) :
           c[v0[values_map_get(c, v0, o, key)].custom_attribute_id].definition_id # 0}
      keys_after_delete == {cav_key(values[n]) : n \in DOMAIN values}
      cavs_to_delete == keys_before_delete \ keys_after_delete
  IN [j \in CavIds |->
        IF \E key \in cavs_to_delete : values_map_get(c, v0, o, key) = j
        THEN NoCav ELSE v[j]]

\* _add_ca_value_dicts, lines 462-478: the dicts in order, against the map
\* of the values stored when the setter began (v0).
RECURSIVE complete_or_create(_, _, _, _, _)
complete_or_create(c, v0, v, o, values) ==
  IF values = <<>> THEN v
  ELSE LET value == Head(values)
           attr == values_map_get(c, v0, o, cav_key(value))
           used == {j \in CavIds : v0[j] # NoCav}
           done == IF attr # 0 THEN complete_cav(v, attr, o, value)
                   ELSE IF ~value.href THEN create_cav(v, used, o, value)
                   ELSE v
       IN complete_or_create(c, v0, done, o, Tail(values))

\* _add_ca_value_dicts
add_ca_value_dicts(c, v, o, values) ==
  delete_cavs(c, v, complete_or_create(c, v, v, o, values), o, values)

\* The setter of custom_attribute_values, for a list of dicts.
set_custom_attribute_values(c, v, o, values) ==
  IF values = <<>> THEN v
  ELSE add_ca_value_dicts(c, v, o,
         extend_values(c, custom_attribute_definitions(c, o), values_map_keys(c, v, o), values))

\* The dicts a request sends for object o: stubs, and dicts for the
\* definitions of its type that are global or its own.
ValueDicts(c, o) ==
  {Stub}
  \cup UNION {IF c[i].attribute_type = "Map:Person"
              THEN {ValueDict(FALSE, i, "Person", persons) : persons \in {<<>>, <<1>>, <<1, 2>>}}
              ELSE {ValueDict(FALSE, i, text, <<>>) : text \in {"x", "y"}}
              : i \in {h \in CadIds : /\ c[h] # NoCad
                                       /\ c[h].definition_type = table_singular(o)
                                       /\ c[h].definition_id \in {0, o}}}

\* The dicts of the request that make a new value.
Creates(c, v, o, values) ==
  LET extended == extend_values(c, custom_attribute_definitions(c, o), values_map_keys(c, v, o), values)
  IN {n \in DOMAIN extended : ~extended[n].href /\ cav_key(extended[n]) \notin values_map_keys(c, v, o)}

\* The store holds one value for a key of an object, so a request has no two
\* dicts for one new key, and it has room for the new values.
Storable(c, v, o, values) ==
  /\ LET extended == extend_values(c, custom_attribute_definitions(c, o), values_map_keys(c, v, o), values)
     IN \A n, h \in Creates(c, v, o, values) :
          cav_key(extended[n]) = cav_key(extended[h]) => n = h
  /\ Cardinality({j \in CavIds : v[j] = NoCav}) >= Cardinality(Creates(c, v, o, values))

\* A request sets custom_attribute_values of object o.
SetCustomAttributeValues(o, values) ==
  /\ Storable(cads, cavs, o, values)
  /\ cavs' = set_custom_attribute_values(cads, cavs, o, values)
  /\ UNCHANGED cads
  /\ UNCHANGED <<task_vars, email_vars>>

\* The definitions process_definitions would insert for the list.
Inserts(c, o, definitions) ==
  LET current_cad_ids == IF has_id(o) THEN custom_attribute_definitions(c, o) ELSE {}
  IN {n \in DOMAIN definitions : definitions[n].id \notin current_cad_ids}

\* An entry of a list of definitions: id (NoId when absent), title and type.
DefinitionEntries ==
  [id : {NoId} \cup (1 .. 3), title : {"a", "b"}, attribute_type : {"Text"}]

\* Lists of at most MaxEntries entries of set S.
ListsOf(S) == UNION {[1 .. n -> S] : n \in 0 .. MaxEntries}

\* A request processes the definitions of object o.
ProcessDefinitions(o, definitions) ==
  /\ PER_OBJECT_CUSTOM_ATTRIBUTABLE(o) =>
       Cardinality({i \in CadIds : cads[i] = NoCad})
         >= Cardinality(Inserts(cads, o, definitions))
  /\ LET r == process_definitions(cads, cavs, o, definitions) IN
     /\ cads' = r.cads
     /\ cavs' = r.cavs
  /\ UNCHANGED <<task_vars, email_vars>>

----------------------------------------------------------------------------
(* The session and the store *)

\* The objects session p holds that are not committed.  A query of p first
\* flushes them (autoflush), so p's own queries see them; nobody else does.
PendingKeys(ts, p) == {k \in Keys : ts[k].owner = p /\ ts[k].st = "pending"}

\* db.session.commit(): the session's rows are inserted or updated and made
\* visible to all.  The store gives every row an id no other row has; the
\* model takes the object's token.
commit(ts, p) ==
  [k \in Keys |->
    IF k \in PendingKeys(ts, p)
    THEN [ts[k] EXCEPT !.st = "committed", !.owner = 0, !.id = k]
    ELSE ts[k]]

\* Rows a query of session p sees: committed ones and its own flushed ones.
Visible(ts, p, k) ==
  \/ ts[k].st = "committed"
  \/ ts[k].st = "pending" /\ ts[k].owner = p

\* db.session.rollback(): the session's uncommitted objects are expunged.
rollback(ts, p) ==
  [k \in Keys |->
    IF k \in PendingKeys(ts, p)
    THEN [NoTask EXCEPT !.st = "discarded"]
    ELSE ts[k]]

----------------------------------------------------------------------------
(* BackgroundTask *)

\* start() as it would be without its commit: the store keeps the old status.
start_without_commit(ts, p, k) ==
  IF ts[k].st = "committed" THEN ts ELSE [ts EXCEPT ![k].status = "Running"]

\* BackgroundTask.start: status = "Running", session.add, session.commit
start(ts, p, k) == commit([ts EXCEPT ![k].status = "Running"], p)

\* The result structure finish persists for a Response or for a plain value.
result_of(result) ==
  IF result.isResponse
  THEN [content |-> result.content, status_code |-> result.status_code,
        headers |-> result.headers]
  ELSE [content |-> result.content, status_code |-> 200, headers |-> TextHtml]

\* finish() as it would be if it forgot self.status = status.
finish_without_status(ts, sw, p, k, status, result) ==
  [tasks |-> commit([rollback(ts, p) EXCEPT ![k].result = result_of(result)], p),
   tx |-> [by |-> "finish", tasks |-> {k}, work |-> FALSE, discarded |-> sw]]

\* finish() as it would be without db.session.rollback(): the commit takes
\* the work function's uncommitted writes with it.
finish_without_rollback(ts, sw, p, k, status, result) ==
  [tasks |-> commit([ts EXCEPT ![k].result = result_of(result),
                               ![k].status = status], p),
   tx |-> [by |-> "finish", tasks |-> PendingKeys(ts, p) \cup {k}, work |-> sw,
           discarded |-> FALSE]]

\* finish() as it would be if it rolled back only when recording a Failure.
finish_rollback_on_failure(ts, sw, p, k, status, result) ==
  LET before == IF status = "Failure" THEN rollback(ts, p) ELSE ts IN
  [tasks |-> commit([before EXCEPT ![k].result = result_of(result),
                                   ![k].status = status], p),
   tx |-> [by |-> "finish", tasks |-> PendingKeys(before, p) \cup {k},
           work |-> sw /\ status # "Failure",
           discarded |-> sw /\ status = "Failure"]]

\* BackgroundTask.finish: rollback, then result and status, add, commit.
\* sw: the session holds uncommitted writes of the work function.  Gives the
\* store after the commit and the transaction's write set.
finish(ts, sw, p, k, status, result) ==
  LET rolled == rollback(ts, p) IN
  [tasks |-> commit([rolled EXCEPT ![k].result = result_of(result),
                                   ![k].status = status], p),
   tx |-> [by |-> "finish", tasks |-> {k}, work |-> FALSE, discarded |-> sw]]

\* get_content as it would be without json.loads and its fallback.
get_content_raw(result) == PyStr(result.content)

\* self.result.get("content", "{}") if self.result else "{}"
content_json_of(result) ==
  IF result # NoResult
  THEN IF "content" \in DOMAIN result THEN result.content ELSE "{}"
  ELSE "{}"

\* get_content as it would be without its except clause: nothing is returned
\* when json.loads raises.
get_content_without_except(result) == json_loads(content_json_of(result)).value

\* BackgroundTask.get_content: the content of the result decoded from JSON,
\* {} when there is no result or the decoding raises.
get_content(result) ==
  LET content == json_loads(content_json_of(result))
  IN IF content.exc # "" THEN PyDict({}) ELSE content.value

----------------------------------------------------------------------------
(* Operation guard *)

\* The guard as it would be if its filter named only "Running".
bg_operation_running_only_running(ts, p, operation_type, object_type, object_id) ==
  \E k \in Keys :
    /\ Visible(ts, p, k)
    /\ ts[k].op.object_type = object_type
    /\ ts[k].op.object_id = object_id
    /\ ts[k].op.operation_type = operation_type
    /\ ts[k].status = "Running"

\* The guard as it would be if its filter named only "Pending".
bg_operation_running_only_pending(ts, p, operation_type, object_type, object_id) ==
  \E k \in Keys :
    /\ Visible(ts, p, k)
    /\ ts[k].op.object_type = object_type
    /\ ts[k].op.object_id = object_id
    /\ ts[k].op.operation_type = operation_type
    /\ ts[k].status = "Pending"

\* The guard as it would be without its filter on the status.
bg_operation_running_any_status(ts, p, operation_type, object_type, object_id) ==
  \E k \in Keys :
    /\ Visible(ts, p, k)
    /\ ts[k].op.object_type = object_type
    /\ ts[k].op.object_id = object_id
    /\ ts[k].op.operation_type = operation_type

\* bg_operation_running: a task in Pending or Running joined to an operation
\* of this type on this object, among the rows the session's query sees.
bg_operation_running(ts, p, operation_type, object_type, object_id) ==
  \E k \in Keys :
    /\ Visible(ts, p, k)
    /\ ts[k].op.object_type = object_type
    /\ ts[k].op.object_id = object_id
    /\ ts[k].op.operation_type = operation_type
    /\ ts[k].status \in {"Pending", "Running"}

\* create_bg_operation: an unpersisted BackgroundOperation, or None.
create_bg_operation(operation_type, object_type, object_id) ==
  IF /\ operation_type # ""
     /\ operation_type \in OperationTypeTable
     /\ object_type # ""
     /\ object_id # 0
  THEN [operation_type |-> operation_type, object_type |-> object_type,
        object_id |-> object_id]
  ELSE NoOp

\* _check_and_create_bg_operation: the exception raised ("" for none) and
\* the BackgroundOperation returned.
check_and_create_bg_operation(ts, p, operation_type, parameters) ==
  LET parent_type == parameters.parent.type
      parent_id == parameters.parent.id
  IN
  IF ~(parent_type # "" /\ parent_id # 0)
  THEN [exc |-> "ValueError", bg_operation |-> NoOp]
  ELSE IF bg_operation_running(ts, p, operation_type, parent_type, parent_id)
  THEN [exc |-> "BadRequest", bg_operation |-> NoOp]
  ELSE [exc |-> "",
        bg_operation |-> create_bg_operation(operation_type, parent_type, parent_id)]

----------------------------------------------------------------------------
(* Task submitter and queue adapter *)

\* Tokens uuid.uuid4() has not given out yet (the model's cap on creations).
FreeKeys == {k \in Keys : tasks[k].st = "none"}

\* uuid.uuid4(): a token no earlier task was given.
FreshKey == CHOOSE k \in FreeKeys : \A j \in FreeKeys : k <= j

\* The task name as it would be without the uuid4 token.
bg_task_name_without_token(k, name) == name

\* "{}_{}".format(uuid.uuid4(), name), k being the token uuid4 gave.
bg_task_name(k, name) == ToString(k) \o "_" \o name

\* _create_bg_task: a BackgroundTask added to the session; no flush, no
\* commit, so its id is still None (0).
create_bg_task(p, k, name, bg_operation) ==
  [st |-> "pending", owner |-> p, id |-> 0, name |-> name,
   status |-> "Pending", result |-> NoResult, op |-> bg_operation]

\* The header collection as it would be without the denylist.
collect_task_headers_unfiltered(request_headers) == request_headers

\* collect_task_headers: the request's headers whose key is not banned.
collect_task_headers(request_headers) ==
  SelectSeq(request_headers, LAMBDA h : h[1] \notin BANNED_HEADERS)

\* Headers.add(key, value): appended after the headers already there.
headers_add(headers, key, value) == Append(headers, <<key, value>>)

\* Headers.get(key): the value of the first header of that key, or None.
headers_get(headers, key) ==
  LET found == SelectSeq(headers, LAMBDA h : h[1] = key) IN
  IF found = <<>> THEN NoName ELSE found[1][2]

\* _enqueue_task as it would be if it looked at queued_callback first.
enqueue_task_callback_first(ts, name, k, request_headers, parameters, queued_callback, transport_error) ==
  IF queued_callback
  THEN [tasks |-> ts, sent |-> {}, exc |-> "",
        callback |-> IF k # 0 THEN "bg_task" ELSE "parameters"]
  ELSE [tasks |-> ts,
        sent |-> {[url |-> RunnerUrl, name |-> name, task_id |-> parameters.task_id,
                   headers |-> collect_task_headers(request_headers)]},
        exc |-> "", callback |-> ""]

\* _enqueue_task, bg_task being task k of the session (0 for None).  Gives
\* the session's tasks, the dispatches handed to the transport, the exception
\* raised ("" for none) and what queued_callback is invoked with ("" for no
\* invocation, "bg_task", or "parameters" for **parameters).
enqueue_task(ts, name, k, request_headers, parameters, queued_callback, transport_error) ==
  IF settings.APP_ENGINE
  THEN LET collected == collect_task_headers(request_headers)
           headers == IF k # 0
                      THEN headers_add(collected, "X-Task-Name", ts[k].name)
                      ELSE collected
       IN
       IF transport_error
       THEN [tasks |-> IF k # 0 THEN [ts EXCEPT ![k].status = "Failure"] ELSE ts,
             sent |-> {},
             exc |-> IF ~settings.CLOUD_APPSERVER THEN "UnboundLocalError" ELSE "",
             callback |-> ""]
       ELSE [tasks |-> ts,
             sent |-> {[url |-> RunnerUrl, name |-> name,
                        task_id |-> parameters.task_id, headers |-> headers]},
             exc |-> "", callback |-> ""]
  ELSE IF queued_callback
  THEN [tasks |-> ts, sent |-> {}, exc |-> "",
        callback |-> IF k # 0 THEN "bg_task" ELSE "parameters"]
  ELSE [tasks |-> ts, sent |-> {}, exc |-> "ValueError", callback |-> ""]

\* create_lightweight_task as it would be if it kept a BackgroundTask.
create_lightweight_task_with_record(ts, p, name, request_headers, queued_callback) ==
  [tasks |-> IF \E k \in Keys : ts[k].st = "none"
             THEN LET k == CHOOSE k \in Keys : ts[k].st = "none"
                  IN [ts EXCEPT ![k] = create_bg_task(p, k, name, NoOp)]
             ELSE ts,
   sent |-> {}, exc |-> "", callback |-> ""]

\* create_lightweight_task; the task name is name + str(int(time())) + "_" +
\* uuid4(), at time 0 and with a token of its own; taskqueue.add accepts the
\* task.  Gives the session's tasks, the dispatches handed to the transport,
\* the exception raised and what queued_callback is invoked with.
create_lightweight_task(ts, p, name, request_headers, queued_callback) ==
  IF settings.APP_ENGINE
  THEN [tasks |-> ts,
        sent |-> {[url |-> LightweightUrl,
                   name |-> name \o ToString(0) \o "_" \o "uuid",
                   task_id |-> 0,
                   headers |-> collect_task_headers(request_headers)]},
        exc |-> "", callback |-> ""]
  ELSE IF queued_callback
  THEN [tasks |-> ts, sent |-> {}, exc |-> "", callback |-> "parameters"]
  ELSE [tasks |-> ts, sent |-> {}, exc |-> "ValueError", callback |-> ""]

\* Requests are served by the first free worker.
FreeWorker(p) == pc[p] = "idle" /\ \A q \in Procs : q < p => pc[q] # "idle"

\* create_task up to the guard (lines 145-151).
CreateTaskCheck(p, operation_type, parameters) ==
  /\ pc[p] = "inreq" \/ FreeWorker(p)
  /\ Cardinality(FreeKeys) > Cardinality({q \in Procs : pc[q] = "checked"})
  /\ LET c == IF operation_type # ""
              THEN check_and_create_bg_operation(tasks, p, operation_type, parameters)
              ELSE [exc |-> "", bg_operation |-> NoOp]
     IN
     /\ IF c.exc # ""
        THEN /\ pc' = [pc EXCEPT ![p] = "inreq"]
             /\ ret' = Raised(c.exc)
             /\ locals' = [locals EXCEPT ![p] = NoLocals]
        ELSE /\ pc' = [pc EXCEPT ![p] = "checked"]
             /\ ret' = NoRet
             /\ locals' = [locals EXCEPT ![p] = [bg_operation |-> c.bg_operation]]
  /\ tx' = NoTx
  /\ UNCHANGED <<settings, tasks, queue, cur, sessWork>>

\* create_task from _create_bg_task on (lines 152-170); queued_callback is
\* first read here.  In immediate mode the callback is the queued_task runner,
\* entered up to and including start().
CreateTaskEnqueue(p, request_headers, queued_callback, transport_error) ==
  /\ pc[p] = "checked"
  /\ transport_error => settings.APP_ENGINE
  /\ LET k == FreshKey
         bg_task == create_bg_task(p, k, bg_task_name(k, BaseName),
                                   locals[p].bg_operation)
         added == [tasks EXCEPT ![k] = bg_task]
         e == enqueue_task(added, bg_task.name, k, request_headers,
                           [task_id |-> bg_task.id], queued_callback,
                           transport_error)
     IN
     /\ queue' = queue \cup e.sent
     /\ locals' = [locals EXCEPT ![p] = NoLocals]
     /\ IF e.callback = "bg_task"
        THEN /\ tasks' = start(e.tasks, p, k)
             /\ tx' = [by |-> "start", tasks |-> PendingKeys(e.tasks, p),
                       work |-> sessWork[p], discarded |-> FALSE]
             /\ pc' = [pc EXCEPT ![p] = "working"]
             /\ cur' = [cur EXCEPT ![p] = k]
             /\ ret' = NoRet
        ELSE /\ tasks' = e.tasks
             /\ tx' = NoTx
             /\ pc' = [pc EXCEPT ![p] = "inreq"]
             /\ ret' = IF e.exc # "" THEN Raised(e.exc) ELSE Returned
             /\ cur' = cur
  /\ UNCHANGED <<settings, sessWork>>

\* A request calls create_lightweight_task(BaseName, LightweightUrl, ...),
\* on its way or as all it does.
CreateLightweightTask(p, request_headers, queued_callback) ==
  /\ pc[p] = "inreq" \/ FreeWorker(p)
  /\ Cardinality({m \in queue : m.url = LightweightUrl}) < MaxLightweight
  /\ LET l == create_lightweight_task(tasks, p, BaseName, request_headers,
                                      queued_callback)
     IN
     /\ tasks' = l.tasks
     /\ queue' = queue \cup l.sent
     /\ ret' = IF l.exc # "" THEN Raised(l.exc)
               ELSE IF l.callback # ""
               THEN [NoRet EXCEPT !.kind = "called", !.what = l.callback]
               ELSE [NoRet EXCEPT !.kind = "returned", !.what = "None"]
  /\ tx' = NoTx
  /\ UNCHANGED <<settings, pc, cur, locals, sessWork>>

\* The transport delivers a dispatch of LightweightUrl to its view, which
\* answers it.
LightweightDelivered(m) ==
  /\ m \in queue
  /\ m.url = LightweightUrl
  /\ queue' = queue \ {m}
  /\ tx' = NoTx
  /\ ret' = NoRet
  /\ UNCHANGED <<settings, tasks, pc, cur, locals, sessWork>>

\* The caller of create_task commits its session (request code outside this
\* module's source: the store's "mutations are committed transactionally").
RequestCommit(p) ==
  /\ pc[p] = "inreq"
  /\ PendingKeys(tasks, p) # {}
  /\ tasks' = commit(tasks, p)
  /\ tx' = [by |-> "request", tasks |-> PendingKeys(tasks, p),
            work |-> FALSE, discarded |-> FALSE]
  /\ ret' = NoRet
  /\ UNCHANGED <<settings, queue, pc, cur, locals, sessWork>>

\* The request ends: its session is removed, uncommitted objects are lost.
RequestEnd(p) ==
  /\ pc[p] = "inreq"
  /\ tasks' = rollback(tasks, p)
  /\ pc' = [pc EXCEPT ![p] = "idle"]
  /\ tx' = NoTx
  /\ ret' = NoRet
  /\ UNCHANGED <<settings, queue, cur, locals, sessWork>>

----------------------------------------------------------------------------
(* Task runner: queued_task.decorated_view *)

\* The lookup as it would be without filter_by(name=...): any stored task.
query_any_task(ts, task_name) ==
  IF \E k \in Keys : ts[k].st = "committed"
  THEN CHOOSE k \in Keys : ts[k].st = "committed"
  ELSE 0

\* BackgroundTask.query.filter_by(name=task_name).first() in a fresh session:
\* the key of the committed task of that name, 0 for None.
query_by_name(ts, task_name) ==
  IF \E k \in Keys : ts[k].st = "committed" /\ ts[k].name = task_name
  THEN CHOOSE k \in Keys : ts[k].st = "committed" /\ ts[k].name = task_name
  ELSE 0

\* decorated_view entered by an inbound request whose X-Task-Name header is
\* task_name (NoName: no such header), up to and including start().
RunnerEnter(p, task_name) ==
  LET task == query_by_name(tasks, task_name) IN
  IF task = 0
  THEN /\ ret' = Responded("BackgroundTask not found. Retry later.", 503)
       /\ tx' = NoTx
       /\ UNCHANGED <<tasks, pc, cur>>
  ELSE /\ tasks' = start(tasks, p, task)
       /\ tx' = [by |-> "start", tasks |-> {task}, work |-> FALSE,
                 discarded |-> FALSE]
       /\ pc' = [pc EXCEPT ![p] = "working"]
       /\ cur' = [cur EXCEPT ![p] = task]
       /\ ret' = NoRet

\* A runner is handling the dispatch named task_name.
InFlight(task_name) ==
  \E q \in Procs : pc[q] = "working" /\ tasks[cur[q]].name = task_name

\* The transport delivers dispatch m, with the headers it was given, to one
\* request at a time; m stays with the transport until a request answers it
\* with a 2xx.  The runner reads request.headers.get("X-Task-Name").
RunQueued(p, m) ==
  /\ FreeWorker(p)
  /\ m \in queue
  /\ m.url = RunnerUrl
  /\ ~InFlight(m.name)
  /\ RunnerEnter(p, headers_get(m.headers, "X-Task-Name"))
  /\ UNCHANGED <<settings, queue, locals, sessWork>>

\* A request without X-Task-Name reaches the runner.
RunNoHeader(p) ==
  /\ FreeWorker(p)
  /\ RunnerEnter(p, NoName)
  /\ UNCHANGED <<settings, queue, locals, sessWork>>

\* func(task) writes to the session without committing.
WorkWrite(p) ==
  /\ pc[p] = "working"
  /\ ~sessWork[p]
  /\ sessWork' = [sessWork EXCEPT ![p] = TRUE]
  /\ tx' = NoTx
  /\ ret' = NoRet
  /\ UNCHANGED <<settings, tasks, queue, pc, cur, locals>>

\* func(task) commits what it wrote.
WorkCommit(p) ==
  /\ pc[p] = "working"
  /\ sessWork[p]
  /\ sessWork' = [sessWork EXCEPT ![p] = FALSE]
  /\ tx' = [by |-> "work", tasks |-> {}, work |-> TRUE, discarded |-> FALSE]
  /\ ret' = NoRet
  /\ UNCHANGED <<settings, tasks, queue, pc, cur, locals>>

\* The status code flask gives the view's return value.
response_of(result) ==
  IF result.isResponse
  THEN Responded(result.content, result.status_code)
  ELSE Responded(result.content, 200)

\* The runner leaves decorated_view with `response`.  Under APP_ENGINE it was
\* entered by a delivery: the transport drops the dispatch on 2xx and keeps it
\* for retry otherwise.  Else it was called as queued_callback and returns
\* into create_task, which returns bg_task.
RunnerLeave(p, response) ==
  /\ cur' = [cur EXCEPT ![p] = 0]
  /\ sessWork' = [sessWork EXCEPT ![p] = FALSE]
  /\ IF settings.APP_ENGINE
     THEN /\ pc' = [pc EXCEPT ![p] = "idle"]
          /\ ret' = response
          /\ queue' = IF response.code \in 200..299
                      THEN {m \in queue : m.name # tasks[cur[p]].name}
                      ELSE queue
     ELSE /\ pc' = [pc EXCEPT ![p] = "inreq"]
          /\ ret' = [Returned EXCEPT !.code = response.code, !.body = response.body]
          /\ queue' = queue

\* func(task) returns result: finish("Success", result); return result.
WorkReturn(p, result) ==
  /\ pc[p] = "working"
  /\ LET f == finish(tasks, sessWork[p], p, cur[p], "Success", result) IN
     /\ tasks' = f.tasks
     /\ tx' = f.tx
  /\ RunnerLeave(p, response_of(result))
  /\ UNCHANGED <<settings, locals>>

\* The answer as it would be if it told the transport of the failure.
failure_response_500 == make_response("failure", 500, TextHtml)

\* What decorated_view returns after a failed work function: "Return 200 so
\* that the task is not retried".
failure_response == make_response("failure", 200, TextHtml)

\* func(task) raises: finish("Failure", traceback response); return 200.
WorkRaise(p) ==
  /\ pc[p] = "working"
  /\ LET f == finish(tasks, sessWork[p], p, cur[p], "Failure",
                     make_response(Traceback, 200, TextHtml)) IN
     /\ tasks' = f.tasks
     /\ tx' = f.tx
  /\ RunnerLeave(p, response_of(failure_response))
  /\ UNCHANGED <<settings, locals>>

\* A request reads the content of stored task k: task.get_content().
GetContent(p, k) ==
  /\ FreeWorker(p)
  /\ tasks[k].st = "committed"
  /\ ret' = [NoRet EXCEPT !.kind = "content", !.content = get_content(tasks[k].result)]
  /\ tx' = NoTx
  /\ UNCHANGED <<settings, tasks, queue, pc, cur, locals, sessWork>>

\* The process dies inside func(task): nothing more is committed and the
\* transport gets no answer.
Crash(p) ==
  /\ pc[p] = "working"
  /\ pc' = [pc EXCEPT ![p] = "idle"]
  /\ cur' = [cur EXCEPT ![p] = 0]
  /\ sessWork' = [sessWork EXCEPT ![p] = FALSE]
  /\ tx' = NoTx
  /\ ret' = NoRet
  /\ UNCHANGED <<settings, tasks, queue, locals>>

----------------------------------------------------------------------------

TaskInit ==
  /\ settings \in Settings
  /\ tasks = [k \in Keys |-> NoTask]
  /\ queue = {}
  /\ pc = [p \in Procs |-> "idle"]
  /\ cur = [p \in Procs |-> 0]
  /\ locals = [p \in Procs |-> NoLocals]
  /\ sessWork = [p \in Procs |-> FALSE]
  /\ tx = NoTx
  /\ ret = NoRet

\* No request for notifications yet.
EmailInit ==
  /\ url_root = NoUrl
  /\ payload = NoPayload
  /\ outbox = <<>>

\* The definitions of the installation, and no value.
CAInit ==
  /\ cads = InitialCads
  /\ cavs = NoCavs

Init == TaskInit /\ EmailInit /\ CAInit

\* A step of the background tasks.
TaskNext ==
  \/ \E m \in queue : LightweightDelivered(m)
  \/ \E p \in Procs :
      \/ \E operation_type \in OperationTypes, parent \in ParentChoices :
           CreateTaskCheck(p, operation_type, [parent |-> parent])
      \/ \E request_headers \in RequestHeaders,
            queued_callback, transport_error \in BOOLEAN :
           CreateTaskEnqueue(p, request_headers, queued_callback, transport_error)
      \/ RequestCommit(p)
      \/ RequestEnd(p)
      \/ \E m \in queue : RunQueued(p, m)
      \/ RunNoHeader(p)
      \/ WorkWrite(p)
      \/ WorkCommit(p)
      \/ \E result \in WorkResults : WorkReturn(p, result)
      \/ WorkRaise(p)
      \/ Crash(p)
      \/ \E k \in Keys : GetContent(p, k)
      \/ \E request_headers \in RequestHeaders, queued_callback \in BOOLEAN :
           CreateLightweightTask(p, request_headers, queued_callback)

Next == TaskNext /\ UNCHANGED <<email_vars, ca_vars>>

Spec == Init /\ [][Next]_vars

\* A step of the job notifications.
NextEmail ==
  \/ \E root \in UrlRoots, p \in Payloads : NewRequest(root, p)
  \/ PrepareUrlImportObj
  \/ \E template \in Templates, send_to \in Recipients,
        filename \in Filenames, ie_id \in JobIds :
       SendEmail(template, send_to, filename, ie_id)

\* The job notifications alone: requests that prepare payloads and send mail.
SpecEmail == Init /\ [][NextEmail]_vars

\* A step of the custom attribute definitions.
NextCA ==
  \E o \in Objects, definitions \in ListsOf(DefinitionEntries) :
    ProcessDefinitions(o, definitions)

\* The custom attribute definitions alone: requests that process the
\* definitions of objects, some of which have values.
InitCA ==
  /\ TaskInit
  /\ EmailInit
  /\ cads = InitialCads
  /\ cavs \in StoredCavs

SpecCA == InitCA /\ [][NextCA]_vars

\* A step of the custom attribute values.
NextCAV ==
  \E o \in Objects : \E values \in ListsOf(ValueDicts(cads, o)) :
    SetCustomAttributeValues(o, values)

\* The custom attribute values alone: requests that set the values of
\* objects, under the definitions of the installation and under those with a
\* Text definition of template 1 added.
InitCAV ==
  /\ TaskInit
  /\ EmailInit
  /\ cads \in {InitialCads, [InitialCads EXCEPT ![4] = Cad("assessment_template", 1, "b", "Text")]}
  /\ cavs = NoCavs

SpecCAV == InitCAV /\ [][NextCAV]_vars


----------------------------------------------------------------------------
(* Claims *)

\* The BackgroundOperation of the triple (operation type, target type, id).
Triple(operation_type, object_type, object_id) ==
  [operation_type |-> operation_type, object_type |-> object_type,
   object_id |-> object_id]

\* Task k is stored and not terminal.
Active(k) ==
  tasks[k].st = "committed" /\ tasks[k].status \in {"Pending", "Running"}

\* C1: in every reachable state at most one stored BackgroundTask in Pending
\* or Running exists per (operation type, target type, target id) triple.
C1_AtMostOneActivePerTriple ==
  \A j, k \in Keys :
    (Active(j) /\ Active(k) /\ tasks[j].op # NoOp /\ tasks[j].op = tasks[k].op)
      => j = k

LegalMove(a, b) ==
  \/ a = b
  \/ <<a, b>> \in {<<"Pending", "Running">>, <<"Running", "Success">>,
                   <<"Running", "Failure">>}

\* C2: every step moves every task's status only along
\* Pending -> Running -> Success or Failure.
C2_StatusMonotonic ==
  [][\A k \in Keys :
       (tasks[k].st \in {"pending", "committed"}
          /\ tasks'[k].st \in {"pending", "committed"})
         => LegalMove(tasks[k].status, tasks'[k].status)]_vars

\* C3: create_task with an operation_type and a parent for which the caller's
\* queries see a Pending or Running task of that triple raises BadRequest,
\* leaves every record as it was, enqueues nothing and goes no further.
C3_DuplicateRejected ==
  [][\A p \in Procs, operation_type \in OperationTypes, parent \in ParentChoices :
       (/\ CreateTaskCheck(p, operation_type, [parent |-> parent])
        /\ operation_type # "" /\ parent.type # "" /\ parent.id # 0
        /\ \E k \in Keys :
             /\ Visible(tasks, p, k)
             /\ tasks[k].status \in {"Pending", "Running"}
             /\ tasks[k].op = Triple(operation_type, parent.type, parent.id))
       => /\ ret' = Raised("BadRequest")
          /\ tasks' = tasks
          /\ queue' = queue
          /\ pc'[p] = "inreq"]_vars

C3_Witness ==
  /\ ret = Raised("BadRequest")
  /\ \E k \in Keys : tasks[k].op # NoOp /\ tasks[k].status \in {"Pending", "Running"}

\* C4: when the work function raises, the runner answers 200 and the task is
\* stored with status Failure and the non-empty traceback as result content.
C4_RaiseRecordedAsFailure ==
  [][\A p \in Procs :
       WorkRaise(p)
       => /\ ret'.code = 200
          /\ tasks'[cur[p]].st = "committed"
          /\ tasks'[cur[p]].status = "Failure"
          /\ tasks'[cur[p]].result.content = Traceback
          /\ Traceback # ""]_vars

C4_Witness ==
  /\ ret.code = 200 /\ ret.body = "failure"
  /\ \E k \in tx.tasks :
       tasks[k].status = "Failure" /\ tasks[k].result.content = Traceback

\* C5: start() on a stored task that is not Pending, and finish() on one that
\* is not Running, changes neither its status nor its result.
C5_IllegalTransitionChangesNothing ==
  [][\A p \in Procs, k \in Keys :
       (\/ /\ pc[p] # "working" /\ pc'[p] = "working" /\ cur'[p] = k
           /\ tasks[k].st = "committed" /\ tasks[k].status # "Pending"
        \/ /\ pc[p] = "working" /\ cur[p] = k /\ tx'.by = "finish"
           /\ pc'[p] # "working" /\ tasks[k].status # "Running")
       => /\ tasks'[k].status = tasks[k].status
          /\ tasks'[k].result = tasks[k].result]_vars

\* C6: while a work function executes, the stored status of its task is
\* Running (so a process death then leaves Running, never Pending).
C6_RunningCommittedDuringWork ==
  \A p \in Procs :
    pc[p] = "working"
      => tasks[cur[p]].st = "committed" /\ tasks[cur[p]].status = "Running"

C6_Witness ==
  \E p \in Procs : pc[p] = "working" /\ sessWork[p] /\ tasks[cur[p]].status = "Running"

\* C7: a runner request whose X-Task-Name is absent or names no stored task
\* is answered 503, runs no work function and changes no record.
C7_UnresolvedAnswered503 ==
  [][\A p \in Procs :
       (\/ RunNoHeader(p)
        \/ \E m \in queue :
             /\ RunQueued(p, m)
             /\ ~\E k \in Keys : tasks[k].st = "committed" /\ tasks[k].name = m.name)
       => /\ ret'.code = 503
          /\ tasks' = tasks
          /\ tx' = NoTx
          /\ pc' = pc]_vars

C7_Witness ==
  /\ ret.code = 503
  /\ queue # {}
  /\ \E k \in Keys : tasks[k].st = "committed"

\* C8: under APP_ENGINE a transport error in the enqueue step marks the task
\* Failure and create_task returns normally, whatever CLOUD_APPSERVER is.
C8_TransportErrorAbsorbed ==
  [][\A p \in Procs, request_headers \in RequestHeaders, queued_callback \in BOOLEAN :
       (settings.APP_ENGINE
          /\ CreateTaskEnqueue(p, request_headers, queued_callback, TRUE))
       => /\ ret'.kind = "returned"
          /\ tasks'[FreshKey].status = "Failure"]_vars

\* C9: without APP_ENGINE and without a callback the enqueue step raises
\* ValueError and nothing else happens: no callback, no dispatch, and no
\* record created or changed, also when reached through create_task.
C9_NoPathNoSideEffects ==
  [][\A p \in Procs, request_headers \in RequestHeaders :
       (~settings.APP_ENGINE /\ CreateTaskEnqueue(p, request_headers, FALSE, FALSE))
       => /\ ret' = Raised("ValueError")
          /\ pc'[p] # "working"
          /\ queue' = queue
          /\ tasks' = tasks]_vars

\* C10: when the work function raises after uncommitted writes, the
\* transaction that stores Failure holds the task's row alone: the writes
\* were discarded, and the session keeps none of them to commit later.
C10_FailureTxHoldsOnlyTask ==
  [][\A p \in Procs :
       (WorkRaise(p) /\ sessWork[p])
       => /\ tx' = [by |-> "finish", tasks |-> {cur[p]}, work |-> FALSE,
                    discarded |-> TRUE]
          /\ ~sessWork'[p]]_vars

C10_Witness ==
  /\ tx.by = "finish" /\ tx.discarded
  /\ ret.body = "failure"
  /\ \E k \in tx.tasks : tasks[k].status = "Failure"

\* C11: once a BackgroundTask is stored as Failure, no step changes it, no
\* runner takes it up again and the transport holds no dispatch for it.
C11_FailureNeverRedelivered ==
  [][\A k \in Keys :
       (tasks[k].st = "committed" /\ tasks[k].status = "Failure")
       => /\ tasks'[k] = tasks[k]
          /\ \A p \in Procs : cur'[p] # k
          /\ \A m \in queue' : m.name # tasks[k].name]_vars

C11_Witness ==
  /\ settings.APP_ENGINE
  /\ tx = NoTx
  /\ \E k \in Keys :
       /\ tasks[k].st = "committed" /\ tasks[k].status = "Failure"
       /\ tasks[k].result.content = Traceback
       /\ \E j \in Keys : j # k /\ \E m \in queue : m.name = tasks[j].name

\* The BackgroundTask objects a step adds to a session or to the store.
AddedTasks == {k \in Keys : tasks[k].st = "none" /\ tasks'[k].st # "none"}

\* C12: a create_task call that goes on to return bg_task adds exactly one
\* BackgroundTask (with at most one BackgroundOperation, which it owns); a
\* create_task call that raises adds no BackgroundTask and no
\* BackgroundOperation.
C12_OneTaskPerSuccessfulCall ==
  [][\A p \in Procs :
       /\ (pc[p] = "checked" /\ pc'[p] # "checked")
          => IF ret'.kind = "raised"
             THEN AddedTasks = {}
             ELSE Cardinality(AddedTasks) = 1
       /\ (pc[p] # "checked" /\ ret'.kind = "raised") => AddedTasks = {}]_vars

\* C13: every dispatch handed to the transport names a BackgroundTask that is
\* stored at the handover and carries that record's store id (an assigned
\* one) as task_id.
C13_DispatchCarriesStoredId ==
  [][\A m \in queue' \ queue :
       /\ m.task_id # 0
       /\ \E k \in Keys :
            /\ tasks'[k].name = m.name
            /\ tasks'[k].st = "committed"
            /\ tasks'[k].id = m.task_id]_vars

\* The headers of a sequence, as a set of <<key, value>> pairs.
HeaderSet(headers) == {headers[i] : i \in DOMAIN headers}

\* C14: the headers of every dispatch create_task hands over are the request's
\* headers without those of a banned key, plus exactly one X-Task-Name header,
\* which carries the name of the task created and is the one the runner reads.
C14_ForwardedHeadersFiltered ==
  [][\A p \in Procs, request_headers \in RequestHeaders,
        queued_callback, transport_error \in BOOLEAN :
       CreateTaskEnqueue(p, request_headers, queued_callback, transport_error)
       => \A m \in queue' \ queue :
            /\ HeaderSet(m.headers) =
                 {h \in HeaderSet(request_headers) : h[1] \notin BANNED_HEADERS}
                   \cup {<<"X-Task-Name", tasks'[FreshKey].name>>}
            /\ Cardinality({i \in DOMAIN m.headers :
                              m.headers[i][1] = "X-Task-Name"}) = 1
            /\ \A h \in HeaderSet(request_headers) :
                 h[1] \in BANNED_HEADERS => h \notin HeaderSet(m.headers)
            /\ headers_get(m.headers, "X-Task-Name") = tasks'[FreshKey].name]_vars

\* A dispatch made by a request that came with banned headers: its own
\* header went through, the banned ones did not, and the task named is the
\* one created.
C14_Witness ==
  \E m \in queue :
    /\ <<"Accept", "text/html">> \in HeaderSet(m.headers)
    /\ Len(m.headers) = 2
    /\ headers_get(m.headers, "X-Task-Name") = m.name
    /\ m.name # "0_scan"

\* Session p sees no Pending or Running task of operation op, and a stored
\* task of op has reached Success.
ReleasedBySuccess(p, op) ==
  /\ op # NoOp
  /\ \E j \in Keys :
       tasks[j].st = "committed" /\ tasks[j].op = op /\ tasks[j].status = "Success"
  /\ ~\E j \in Keys :
       Visible(tasks, p, j) /\ tasks[j].op = op
         /\ tasks[j].status \in {"Pending", "Running"}

\* C15 (as stated): a create_task for a triple whose only task has reached
\* Success returns a BackgroundTask named "<uuid>_<name>" whose status is
\* Pending.
C15_ReturnsPendingAfterSuccess ==
  [][\A p \in Procs :
       LET k == IF pc[p] = "checked" THEN FreshKey ELSE cur[p] IN
       (/\ pc[p] \in {"checked", "working"}
        /\ ret'.kind = "returned"
        /\ pc'[p] = "inreq"
        /\ \E j \in Keys :
             /\ j # k /\ tasks'[j].st = "committed"
             /\ tasks'[j].op = tasks'[k].op /\ tasks'[j].op # NoOp
             /\ tasks'[j].status = "Success")
       => /\ tasks'[k].name = bg_task_name(k, BaseName)
          /\ tasks'[k].status = "Pending"]_vars

\* C15 (amended): when the only task of a triple has reached Success, the
\* guard lets a new create_task for the triple pass, and the call creates a
\* BackgroundTask named "<uuid>_<name>" in status Pending; create_task
\* returns it still Pending when it handed the dispatch to the transport.
C15_GuardReleasedAfterSuccess ==
  [][\A p \in Procs :
       /\ \A operation_type \in OperationTypeTable, parent \in ParentChoices :
            (/\ CreateTaskCheck(p, operation_type, [parent |-> parent])
             /\ ReleasedBySuccess(p, Triple(operation_type, parent.type, parent.id)))
            => /\ pc'[p] = "checked"
               /\ ret' = NoRet
               /\ locals'[p].bg_operation =
                    Triple(operation_type, parent.type, parent.id)
       /\ \A request_headers \in RequestHeaders,
             queued_callback, transport_error \in BOOLEAN :
            (/\ CreateTaskEnqueue(p, request_headers, queued_callback, transport_error)
             /\ ReleasedBySuccess(p, locals[p].bg_operation))
            => /\ tasks'[FreshKey].name = bg_task_name(FreshKey, BaseName)
               /\ tasks'[FreshKey].op = locals[p].bg_operation
               /\ (settings.APP_ENGINE /\ ~transport_error)
                    => ret' = Returned /\ tasks'[FreshKey].status = "Pending"
               /\ (~settings.APP_ENGINE /\ queued_callback)
                    => tasks'[FreshKey].status = "Running"]_vars

\* create_task has returned a Pending task of a triple whose earlier task is
\* stored as Success.
C15_Witness ==
  /\ ret = Returned
  /\ \E j, k \in Keys :
       /\ tasks[j].st = "committed" /\ tasks[j].status = "Success"
       /\ tasks[k].st = "pending" /\ tasks[k].status = "Pending"
       /\ tasks[k].op = tasks[j].op /\ tasks[k].op # NoOp
       /\ tasks[k].name = bg_task_name(k, BaseName)

\* BackgroundTask object k exists, in a session or in the store.
Exists(k) == tasks[k].st \in {"pending", "committed"}

\* C16: no two BackgroundTask records have the same name, and every record's
\* name is its own token, "_" and the base name.
C16_NamesUnique ==
  \A j, k \in Keys :
    /\ (Exists(j) /\ Exists(k) /\ j # k) => tasks[j].name # tasks[k].name
    /\ Exists(k) => tasks[k].name = ToString(k) \o "_" \o BaseName

\* Two create_task calls with the same base name have both been stored.
C16_Witness ==
  \E j, k \in Keys :
    /\ j # k
    /\ tasks[j].st = "committed" /\ tasks[k].st = "committed"
    /\ tasks[j].name = "1_scan" /\ tasks[k].name = "2_scan"

\* The logical content of a work function's result: the value it serialised,
\* or else the text itself.
LogicalContent(result) ==
  IF \E v \in JsonValues : result.content = json_dumps(v)
  THEN CHOOSE v \in JsonValues : result.content = json_dumps(v)
  ELSE PyStr(result.content)

\* C17 (as stated): for every result R, plain or Response, after start() and
\* finish("Success", R) get_content() returns the logical content of R.
C17_ContentRoundTrip ==
  [][\A p \in Procs, result \in WorkResults :
       WorkReturn(p, result)
       => get_content(tasks'[cur[p]].result) = LogicalContent(result)]_vars

\* C17 (amended): after start() and finish("Success", R), get_content()
\* returns the value v when the content of R, plain or Response, is the JSON
\* text of v, and the empty mapping when it is no JSON document.
C17_JsonContentRoundTrip ==
  [][\A p \in Procs, result \in WorkResults :
       WorkReturn(p, result)
       => /\ tasks'[cur[p]].status = "Success"
          /\ \A v \in JsonValues :
               result.content = json_dumps(v)
                 => get_content(tasks'[cur[p]].result) = v
          /\ (\A v \in JsonValues : result.content # json_dumps(v))
               => get_content(tasks'[cur[p]].result) = PyDict({})]_vars

\* get_content() has returned the value a Success task's Response carried.
C17_Witness ==
  /\ ret.kind = "content"
  /\ ret.content = PyDict({<<"n", 1>>})
  /\ \E k \in Keys :
       /\ tasks[k].status = "Success"
       /\ tasks[k].result.headers = ApplicationJson
       /\ tasks[k].result.content = "{\"n\": 1}"

\* A result structure that has no content entry.
ResultWithoutContent == [status_code |-> 200, headers |-> TextHtml]

\* C18: get_content() returns, and returns the empty mapping, for a task with
\* no result, for a result without content and for content that is no JSON
\* document (the traceback of a Failure); the call changes no state.
C18_GetContentFallsBack ==
  [][\A p \in Procs, k \in Keys :
       GetContent(p, k)
       => /\ ret'.kind = "content"
          /\ UNCHANGED <<settings, tasks, queue, pc, cur, locals, sessWork>>
          /\ (\/ tasks[k].result = NoResult
              \/ tasks[k].result.content \in {Traceback, "ok", "error"})
               => ret'.content = PyDict({})
          /\ get_content(ResultWithoutContent) = PyDict({})]_vars

\* get_content() has returned {} for the one task there is, a Failure whose
\* content is the traceback.
C18_Witness ==
  /\ ret.kind = "content"
  /\ ret.content = PyDict({})
  /\ \E k \in Keys :
       /\ tasks[k].st = "committed" /\ tasks[k].status = "Failure"
       /\ tasks[k].result.content = Traceback
       /\ \A j \in Keys : j # k => tasks[j].st = "none"

\* C19: without APP_ENGINE and with a callback, the enqueue step invokes the
\* callback once, with bg_task when there is one and with the parameters
\* otherwise, and hands nothing to the transport; under APP_ENGINE it never
\* invokes the callback.  An enqueue that raises nothing and meets no
\* transport error takes exactly one of the two paths.
C19_ExactlyOnePath ==
  [][\A p \in Procs, request_headers \in RequestHeaders,
        queued_callback, transport_error \in BOOLEAN :
       CreateTaskEnqueue(p, request_headers, queued_callback, transport_error)
       => LET invoked == pc'[p] = "working" /\ cur'[p] = FreshKey
              handed == queue' \ queue
              bare == enqueue_task(tasks, "bare", 0, request_headers,
                                   [task_id |-> 0], queued_callback, FALSE)
          IN
          /\ (~settings.APP_ENGINE /\ queued_callback)
               => /\ invoked /\ handed = {}
                  /\ tx'.by = "start" /\ FreshKey \in tx'.tasks
                  /\ bare.callback = "parameters" /\ bare.sent = {}
          /\ settings.APP_ENGINE
               => /\ ~invoked /\ pc'[p] # "working"
                  /\ bare.callback = ""
          /\ (ret'.kind # "raised" /\ ~transport_error)
               => /\ invoked # (Cardinality(handed) = 1)
                  /\ invoked \/ Cardinality(handed) = 1
                  /\ (bare.callback = "parameters") # (Cardinality(bare.sent) = 1)]_vars

\* In immediate mode the enqueue step has just invoked the callback with the
\* task, and the transport holds nothing.
C19_Witness ==
  /\ ~settings.APP_ENGINE
  /\ queue = {}
  /\ tx.by = "start"
  /\ \E p \in Procs : pc[p] = "working" /\ cur[p] \in tx.tasks

\* C20: create_lightweight_task leaves every BackgroundTask (and its
\* BackgroundOperation) as it was and commits nothing.  Under APP_ENGINE it
\* hands the transport one dispatch; without, it invokes the callback with
\* the parameters when there is one and else raises ValueError, adding
\* nothing to the queue.
C20_LightweightKeepsNoRecord ==
  [][\A p \in Procs, request_headers \in RequestHeaders, queued_callback \in BOOLEAN :
       (/\ ret'.kind \in {"returned", "called", "raised"}
        /\ CreateLightweightTask(p, request_headers, queued_callback))
       => /\ tasks' = tasks
          /\ tx' = NoTx
          /\ UNCHANGED <<pc, cur, locals, sessWork>>
          /\ settings.APP_ENGINE
               => /\ ret'.kind = "returned"
                  /\ Cardinality(queue' \ queue) <= 1
                  /\ queue \subseteq queue'
                  /\ \E m \in queue' :
                       /\ m.url = LightweightUrl
                       /\ headers_get(m.headers, "X-Task-Name") = NoName
                       /\ HeaderSet(m.headers) =
                            {h \in HeaderSet(request_headers) :
                               h[1] \notin BANNED_HEADERS}
          /\ (~settings.APP_ENGINE /\ queued_callback)
               => /\ ret'.kind = "called" /\ ret'.what = "parameters"
                  /\ queue' = queue
          /\ (~settings.APP_ENGINE /\ ~queued_callback)
               => /\ ret' = Raised("ValueError")
                  /\ queue' = queue]_vars

\* create_lightweight_task has handed its dispatch over while a task of
\* create_task is stored, and has returned.
C20_Witness ==
  /\ ret.kind = "returned" /\ ret.what = "None"
  /\ \E m \in queue : m.url = LightweightUrl /\ m.headers # <<>>
  /\ \E k \in Keys : tasks[k].st = "committed" /\ tasks[k].status = "Pending"

\* C23: when the work function returns after uncommitted writes, the
\* transaction that stores Success holds the task's row alone and the writes
\* are discarded; writes of a work function are only ever committed by the
\* work function itself.
C23_SuccessTxHoldsOnlyTask ==
  [][/\ \A p \in Procs, result \in WorkResults :
          (WorkReturn(p, result) /\ sessWork[p])
          => /\ tx' = [by |-> "finish", tasks |-> {cur[p]}, work |-> FALSE,
                       discarded |-> TRUE]
             /\ tasks'[cur[p]].status = "Success"
             /\ ~sessWork'[p]
     /\ tx'.work => tx'.by = "work"]_vars

C23_Witness ==
  /\ tx.by = "finish" /\ tx.discarded /\ ~tx.work
  /\ ret.body = "ok"
  /\ \E k \in tx.tasks : tasks[k].status = "Success"

\* Task k is stored as Running and no runner is working on it: its runner
\* died between start() and finish().
Stuck(k) ==
  /\ tasks[k].st = "committed" /\ tasks[k].status = "Running"
  /\ \A p \in Procs : cur[p] # k

TestRoot == Url("http", "test", <<"", "">>, "")

\* C21: send_email builds the notification url as the url root joined with
\* the template's url, followed by "#!&job_id=<ie_id>" exactly when ie_id is
\* not None, and calls common.send_email exactly once, with the recipient,
\* the formatted title as subject and the body rendered from that data.
C21_SendEmailUrlAndCall ==
  [][\A template \in Templates, send_to \in Recipients,
        filename \in Filenames, ie_id \in JobIds :
       SendEmail(template, send_to, filename, ie_id) =>
         LET joined == urlunparse(urljoin(url_root, template.url))
             call == outbox'[Len(outbox')]
             data == call.body.import_export
         IN /\ Len(outbox') = Len(outbox) + 1
            /\ SubSeq(outbox', 1, Len(outbox)) = outbox
            /\ data.url = IF ie_id = NoId THEN joined
                          ELSE joined \o "#!&job_id=" \o ToString(ie_id)
            /\ (url_root = TestRoot /\ template = EXPORT_COMPLETED) =>
                 data.url = CASE ie_id = 42 -> "http://test/export#!&job_id=42"
                              [] ie_id = 0 -> "http://test/export#!&job_id=0"
                              [] OTHER -> "http://test/export"
            /\ call.send_to = send_to
            /\ call.subject = format_title(template.title, filename)
            /\ call.body = render([body |-> template.body, payload |-> payload',
                                   url |-> data.url, title |-> call.subject])]_vars

\* Two mails of one request: one without a job id, one for job 0.
C21_Witness ==
  /\ Len(outbox) = 2
  /\ outbox[1].body.import_export.url = "http://test/export"
  /\ outbox[2].body.import_export.url = "http://test/export#!&job_id=0"
  /\ outbox[2].subject = "a.csv was exported successfully"

\* A URL with a scheme and a host.
IsFullUrl(u) == u.scheme # "" /\ u.netloc # ""

\* C22: _prepare_url_import_obj returns a mapping with exactly the keys of
\* its input, each value being the url root joined with the input value;
\* values that are full URLs already are left unchanged, so applying it
\* twice gives what applying it once gives, and send_email with a payload of
\* full URLs renders that payload unchanged.
C22_PrepareJoinsOnce ==
  [][/\ PrepareUrlImportObj =>
          /\ ~payload'.none
          /\ DOMAIN payload'.items = DOMAIN payload.items
          /\ \A d \in DOMAIN payload.items :
                /\ payload'.items[d] = urljoin(url_root, payload.items[d])
                /\ IsFullUrl(payload'.items[d])
          /\ (\A d \in DOMAIN payload.items : IsFullUrl(payload.items[d]))
                => payload' = payload
          /\ prepare_url_import_obj(url_root, payload') = payload'
          /\ (url_root = TestRoot /\ payload = Dict(ShortSearches)) =>
                /\ urlunparse(payload'.items["3 Assessment"])
                     = "http://test/objectBrowser#!assessment&saved_search=5"
                /\ urlunparse(payload'.items["4 Audit"])
                     = "http://test/objectBrowser#!audit&saved_search=4"
     /\ \A template \in Templates, send_to \in Recipients,
           filename \in Filenames, ie_id \in JobIds :
          (/\ SendEmail(template, send_to, filename, ie_id)
           /\ ~payload.none
           /\ \A d \in DOMAIN payload.items : IsFullUrl(payload.items[d]))
          => /\ outbox'[Len(outbox')].body.import_export.payload = payload
             /\ payload' = payload]_vars

\* A payload of short urls was joined to the root "http://test/ggrc/", and a
\* mail sent afterwards carries it as it is.
C22_Witness ==
  /\ ~payload.none
  /\ DOMAIN payload.items = Descriptions
  /\ urlunparse(payload.items["3 Assessment"])
       = "http://test/ggrc/objectBrowser#!assessment&saved_search=5"
  /\ Len(outbox) = 2
  /\ outbox[1].body.import_export.payload = payload
  /\ outbox[2].body.import_export.payload = payload


\* The definitions of the object itself, without the global ones.
LocalDefinitions(c, o) == {i \in custom_attribute_definitions(c, o) : c[i].definition_id # 0}

\* The last entry of the list with id i.
LastEntry(definitions, i) ==
  definitions[CHOOSE n \in DOMAIN definitions :
                /\ definitions[n].id = i
                /\ \A h \in DOMAIN definitions : definitions[h].id = i => h <= n]

\* C25: for an object with the PER_OBJECT_CUSTOM_ATTRIBUTABLE marker
\* process_definitions deletes the definitions of the object whose id is not
\* in the list, inserts a definition of the object for every entry whose id
\* is not attached (entries without id too) and updates the attached ones
\* that are listed; without the marker nothing changes; and no global
\* definition is deleted.
C25_GlobalDefinitionsKept ==
  [][\A o \in Objects, definitions \in ListsOf(DefinitionEntries) :
       ProcessDefinitions(o, definitions) =>
         IF ~PER_OBJECT_CUSTOM_ATTRIBUTABLE(o) THEN cads' = cads /\ cavs' = cavs
         ELSE LET attached == custom_attribute_definitions(cads, o)
                  new == {i \in CadIds : cads[i] = NoCad /\ cads'[i] # NoCad}
              IN /\ \A i \in LocalDefinitions(cads, o) :
                      i \notin definition_ids(definitions) => cads'[i] = NoCad
                 /\ Cardinality(new) = Cardinality(Inserts(cads, o, definitions))
                 /\ \A n \in Inserts(cads, o, definitions) :
                      \E i \in new :
                        cads'[i] = Cad(table_singular(o), o, definitions[n].title,
                                       definitions[n].attribute_type)
                 /\ \A i \in attached \cap definition_ids(definitions) :
                      /\ cads'[i].title = LastEntry(definitions, i).title
                      /\ cads'[i].definition_id = cads[i].definition_id
                 /\ \A i \in CadIds :
                      (cads[i] # NoCad /\ cads[i].definition_id = 0) => cads'[i] # NoCad]_vars


\* The last dict of the list with the key.
LastDict(values, key) ==
  values[CHOOSE n \in DOMAIN values :
           /\ cav_key(values[n]) = key
           /\ \A h \in DOMAIN values : cav_key(values[h]) = key => h <= n]

\* C26: setting custom_attribute_values to a non-empty list of dicts updates
\* in place the stored value whose key (custom_attribute_id,
\* attribute_object_id_nn) is in the request, creates a value for a requested
\* key that is not stored, deletes the stored value of a local definition
\* whose key is not in the request and never deletes the stored value of a
\* global definition; an empty list changes nothing.  Stated of the values
\* the setter leaves, for every object and request, in every state requests
\* lead to.
C26_ValuesReconciled ==
  \A o \in Objects : \A values \in ListsOf(ValueDicts(cads, o)) :
    Storable(cads, cavs, o, values) =>
      LET after == set_custom_attribute_values(cads, cavs, o, values) IN
      IF values = <<>> THEN after = cavs
      ELSE LET extended == extend_values(cads, custom_attribute_definitions(cads, o),
                                         values_map_keys(cads, cavs, o), values)
               requested == {cav_key(extended[n]) : n \in DOMAIN extended}
               stored == custom_attribute_values(cavs, o)
           IN /\ \A j \in stored :
                   IF cav_key(cavs[j]) \in requested
                   THEN /\ after[j] # NoCav
                        /\ cav_key(after[j]) = cav_key(cavs[j])
                        /\ after[j].attributable = o
                        /\ after[j].attribute_value
                             = LastDict(extended, cav_key(cavs[j])).attribute_value
                   ELSE IF cads[cavs[j].custom_attribute_id].definition_id # 0
                   THEN after[j] = NoCav
                   ELSE after[j] = cavs[j]
              /\ \A n \in DOMAIN extended :
                   (~extended[n].href /\ cav_key(extended[n]) \notin values_map_keys(cads, cavs, o))
                   => \E j \in CavIds :
                        /\ cavs[j] = NoCav
                        /\ after[j].attributable = o
                        /\ cav_key(after[j]) = cav_key(extended[n])
                        /\ after[j].attribute_value = extended[n].attribute_value
              /\ \A j \in CavIds \ stored :
                   cavs[j] # NoCav => after[j] = cavs[j]
              /\ \A j \in CavIds :
                   (cavs[j] # NoCav /\ cads[cavs[j].custom_attribute_id].definition_id = 0)
                   => after[j] # NoCav

\* One request has deleted the value of template 1 for its Map:Person
\* definition (value 1), updated its value for the global definition (value
\* 2) and created its value for its Text definition (value 3).
C26_Witness ==
  /\ cavs[1] = NoCav
  /\ cavs[2].attributable = 1 /\ cavs[2].custom_attribute_id = 1
  /\ cads[1].definition_id = 0
  /\ cavs[2].attribute_value = "y"
  /\ cavs[3].attributable = 1 /\ cavs[3].custom_attribute_id = 4
  /\ cads[4].definition_id = 1


====
